---------------------------- MODULE Spec2Model ----------------------------
(***************************************************************************)
(* A model of app_tol.py: the one-time load and scoring of the dataset at  *)
(* module import, the layout, and the four Dash callbacks that filter the  *)
(* dataset.                                                                *)
(*                                                                         *)
(* A DataFrame is [cols |-> the column names, rows |-> a sequence of       *)
(* rows]; a row is a function from the column names and "idx" (the pandas  *)
(* index label) to values.  Source columns hold integers and strings.      *)
(* Derived columns hold floats: IEEE 754 binary64 values, every operation  *)
(* rounded to nearest, ties to even, as numpy and float() compute them.    *)
(* A string that the code takes apart (True Speed) is the sequence of its  *)
(* Unicode code points.                                                    *)
(***************************************************************************)
EXTENDS Integers, Sequences, FiniteSets, TLC

VARIABLES
    pc,      \* position of the module-level script
    file,    \* the CSV file as pd.read_csv will find it; "closed" once read
    data,    \* the module-level DataFrame `data`
    stdout,  \* the diagnostics printed so far
    layout,  \* app.layout, once built
    call,    \* the last callback invocation: its name and arguments
    result   \* what that invocation returned

vars == <<pc, file, data, stdout, layout, call, result>>

(***************************************************************************)
(* Bounds of the model.                                                    *)
(***************************************************************************)
\* the longest CSV file (in lines after the header) of specification Spec
MaxRows == 2
\* the longest CSV file of specification SpecScore
MaxScoreRows == 2

(***************************************************************************)
(* Floats.                                                                 *)
(***************************************************************************)
Abs(n) == IF n < 0 THEN -n ELSE n

\* The element of a singleton.  Val({e : x \in {v}}) is e for x the value of
\* v, and v is computed once however often e names x.
Val(S) == CHOOSE x \in S : TRUE

Base == 16384
P2 == <<1, 2, 4, 8, 16, 32, 64, 128, 256, 512, 1024, 2048, 4096, 8192, 16384>>

\* the number of binary digits of n < Base
Bits(n) ==
    IF n < 128
    THEN (IF n < 8 THEN (IF n < 2 THEN n ELSE IF n < 4 THEN 2 ELSE 3)
          ELSE IF n < 16 THEN 4 ELSE IF n < 32 THEN 5 ELSE IF n < 64 THEN 6 ELSE 7)
    ELSE IF n < 1024 THEN (IF n < 256 THEN 8 ELSE IF n < 512 THEN 9 ELSE 10)
    ELSE IF n < 2048 THEN 11 ELSE IF n < 4096 THEN 12 ELSE IF n < 8192 THEN 13 ELSE 14

\* A wide number is a natural number below 2^112: eight limbs in base 2^14,
\* least significant first.
WZero == <<0, 0, 0, 0, 0, 0, 0, 0>>
WLimb(w, i) == IF i >= 1 /\ i <= 8 THEN w[i] ELSE 0
Wide(m) == <<m[1], m[2], m[3], m[4], 0, 0, 0, 0>>

WBitLen(w) ==
    Val({ IF x[8] # 0 THEN 98 + Bits(x[8]) ELSE IF x[7] # 0 THEN 84 + Bits(x[7])
          ELSE IF x[6] # 0 THEN 70 + Bits(x[6]) ELSE IF x[5] # 0 THEN 56 + Bits(x[5])
          ELSE IF x[4] # 0 THEN 42 + Bits(x[4]) ELSE IF x[3] # 0 THEN 28 + Bits(x[3])
          ELSE IF x[2] # 0 THEN 14 + Bits(x[2]) ELSE Bits(x[1]) : x \in {w} })

\* w \div 2^k
WShr(w, k) ==
    Val({ <<(WLimb(x, 1 + ls) \div lo) + (WLimb(x, 2 + ls) % lo) * hi,
            (WLimb(x, 2 + ls) \div lo) + (WLimb(x, 3 + ls) % lo) * hi,
            (WLimb(x, 3 + ls) \div lo) + (WLimb(x, 4 + ls) % lo) * hi,
            (WLimb(x, 4 + ls) \div lo) + (WLimb(x, 5 + ls) % lo) * hi,
            (WLimb(x, 5 + ls) \div lo) + (WLimb(x, 6 + ls) % lo) * hi,
            (WLimb(x, 6 + ls) \div lo) + (WLimb(x, 7 + ls) % lo) * hi,
            (WLimb(x, 7 + ls) \div lo) + (WLimb(x, 8 + ls) % lo) * hi,
            (WLimb(x, 8 + ls) \div lo) + (WLimb(x, 9 + ls) % lo) * hi>> :
          x \in {w}, ls \in {k \div 14}, lo \in {P2[(k % 14) + 1]}, hi \in {P2[15 - (k % 14)]} })

\* w * 2^k, which is below 2^112
WShl(w, k) ==
    Val({ <<(WLimb(x, 1 - ls) % hi) * lo + (WLimb(x, 0 - ls) \div hi),
            (WLimb(x, 2 - ls) % hi) * lo + (WLimb(x, 1 - ls) \div hi),
            (WLimb(x, 3 - ls) % hi) * lo + (WLimb(x, 2 - ls) \div hi),
            (WLimb(x, 4 - ls) % hi) * lo + (WLimb(x, 3 - ls) \div hi),
            (WLimb(x, 5 - ls) % hi) * lo + (WLimb(x, 4 - ls) \div hi),
            (WLimb(x, 6 - ls) % hi) * lo + (WLimb(x, 5 - ls) \div hi),
            (WLimb(x, 7 - ls) % hi) * lo + (WLimb(x, 6 - ls) \div hi),
            (WLimb(x, 8 - ls) % hi) * lo + (WLimb(x, 7 - ls) \div hi)>> :
          x \in {w}, ls \in {k \div 14}, lo \in {P2[(k % 14) + 1]}, hi \in {P2[15 - (k % 14)]} })

\* binary digit p of w
WBit(w, p) == (WLimb(w, (p \div 14) + 1) \div P2[(p % 14) + 1]) % 2

\* some binary digit of w below digit k is one
WLow(w, k) == WShl(WShr(w, k), k) # w

\* a + b, which is below 2^112
WAdd(a, b) ==
    Val({ LET t1 == x[1] + y[1]
              t2 == x[2] + y[2] + t1 \div Base
              t3 == x[3] + y[3] + t2 \div Base
              t4 == x[4] + y[4] + t3 \div Base
              t5 == x[5] + y[5] + t4 \div Base
              t6 == x[6] + y[6] + t5 \div Base
              t7 == x[7] + y[7] + t6 \div Base
              t8 == x[8] + y[8] + t7 \div Base
          IN  <<t1 % Base, t2 % Base, t3 % Base, t4 % Base,
                t5 % Base, t6 % Base, t7 % Base, t8 % Base>> : x \in {a}, y \in {b} })

\* a - b for a >= b
WSub(a, b) ==
    Val({ LET t1 == x[1] - y[1]
              t2 == x[2] - y[2] - (IF t1 < 0 THEN 1 ELSE 0)
              t3 == x[3] - y[3] - (IF t2 < 0 THEN 1 ELSE 0)
              t4 == x[4] - y[4] - (IF t3 < 0 THEN 1 ELSE 0)
              t5 == x[5] - y[5] - (IF t4 < 0 THEN 1 ELSE 0)
              t6 == x[6] - y[6] - (IF t5 < 0 THEN 1 ELSE 0)
              t7 == x[7] - y[7] - (IF t6 < 0 THEN 1 ELSE 0)
              t8 == x[8] - y[8] - (IF t7 < 0 THEN 1 ELSE 0)
          IN  <<(t1 + Base) % Base, (t2 + Base) % Base, (t3 + Base) % Base,
                (t4 + Base) % Base, (t5 + Base) % Base, (t6 + Base) % Base,
                (t7 + Base) % Base, (t8 + Base) % Base>> : x \in {a}, y \in {b} })

\* -1, 0, 1 as a < b, a = b, a > b
WCmp(a, b) ==
    Val({ LET d == IF x[8] # y[8] THEN 8 ELSE IF x[7] # y[7] THEN 7
                   ELSE IF x[6] # y[6] THEN 6 ELSE IF x[5] # y[5] THEN 5
                   ELSE IF x[4] # y[4] THEN 4 ELSE IF x[3] # y[3] THEN 3
                   ELSE IF x[2] # y[2] THEN 2 ELSE 1
          IN  IF x[d] = y[d] THEN 0 ELSE IF x[d] < y[d] THEN -1 ELSE 1 : x \in {a}, y \in {b} })

\* a * b for a, b below 2^56
WMul(a, b) ==
    Val({ LET c1 == x[1] * y[1]
              c2 == x[1] * y[2] + x[2] * y[1] + c1 \div Base
              c3 == x[1] * y[3] + x[2] * y[2] + x[3] * y[1] + c2 \div Base
              c4 == x[1] * y[4] + x[2] * y[3] + x[3] * y[2] + x[4] * y[1] + c3 \div Base
              c5 == x[2] * y[4] + x[3] * y[3] + x[4] * y[2] + c4 \div Base
              c6 == x[3] * y[4] + x[4] * y[3] + c5 \div Base
              c7 == x[4] * y[4] + c6 \div Base
          IN  <<c1 % Base, c2 % Base, c3 % Base, c4 % Base,
                c5 % Base, c6 % Base, c7 % Base, c7 \div Base>> : x \in {a}, y \in {b} })

\* a * k for a below 2^56 and k below Base
WMulSmall(a, k) ==
    Val({ LET c1 == x[1] * n
              c2 == x[2] * n + c1 \div Base
              c3 == x[3] * n + c2 \div Base
              c4 == x[4] * n + c3 \div Base
          IN  <<c1 % Base, c2 % Base, c3 % Base, c4 % Base, c4 \div Base, 0, 0, 0>> : x \in {a}, n \in {k} })

\* IEEE 754 binary64 values.  A finite value is s * m * 2^e with m a
\* natural number of four limbs: 2^52 <= m < 2^53 and -1074 <= e <= 971 for
\* a normal number, m < 2^52 and e = -1074 for a subnormal number and zero.
NaN == [k |-> "nan", s |-> 1, m |-> <<0, 0, 0, 0>>, e |-> 0]
Inf(s) == [k |-> "inf", s |-> s, m |-> <<0, 0, 0, 0>>, e |-> 0]
PosInf == Inf(1)
NegInf == Inf(-1)
Zero(s) == [k |-> "fin", s |-> s, m |-> <<0, 0, 0, 0>>, e |-> -1074]
IsNaN(x) == x.k = "nan"
IsFinite(x) == x.k = "fin"
IsZero(x) == x.k = "fin" /\ x.m = <<0, 0, 0, 0>>

\* s * (q + (IF up THEN 1 ELSE 0)) * 2^e1 as a float, for q of 53 digits or
\* fewer: the sum may take a 54th digit, and the exponent may pass the largest
RoundUp(s, q, e1, up) ==
    Val({ LET t1 == x[1] + (IF u THEN 1 ELSE 0)
              t2 == x[2] + t1 \div Base
              t3 == x[3] + t2 \div Base
              t4 == x[4] + t3 \div Base
          IN  IF t4 = 2048
              THEN (IF e1 + 1 > 971 THEN Inf(s)
                    ELSE [k |-> "fin", s |-> s, m |-> <<0, 0, 0, 1024>>, e |-> e1 + 1])
              ELSE IF t1 = 0 /\ t2 = 0 /\ t3 = 0 /\ t4 = 0 THEN Zero(s)
              ELSE IF e1 > 971 THEN Inf(s)
              ELSE [k |-> "fin", s |-> s, m |-> <<t1 % Base, t2 % Base, t3 % Base, t4>>, e |-> e1]
          : x \in {q}, u \in {up} })

\* s * (w + d) * 2^E rounded to 2^e1, ties to even: the digits of w from
\* e1 - E up, and one more when the digits below exceed half, or are half
\* and the last digit kept is odd
RoundTo(s, w, E, sticky, e1) ==
    Val({ Val({ RoundUp(s, q, e1, /\ sh > 0
                                  /\ WBit(x, sh - 1) = 1
                                  /\ (sticky \/ q[1] % 2 = 1 \/ WLow(x, sh - 1)))
                : q \in {IF sh <= 0 THEN WShl(x, -sh) ELSE WShr(x, sh)} })
          : x \in {w}, sh \in {e1 - E} })

\* s * (w + d) * 2^E rounded to the nearest binary64, ties to even, where
\* 0 <= d < 1, d > 0 exactly when sticky, and w has 55 digits or more when
\* sticky
RoundPack(s, w, E, sticky) ==
    Val({ Val({ RoundTo(s, x, E, sticky, IF E + L - 53 < -1074 THEN -1074 ELSE E + L - 53)
                : L \in {WBitLen(x)} })
          : x \in {w} })

\* an integer cell (of 32 bits) as a float
FromInt(i) ==
    Val({ RoundPack(IF i < 0 THEN -1 ELSE 1,
                    <<a % Base, (a \div Base) % Base, a \div (Base * Base), 0, 0, 0, 0, 0>>,
                    0, FALSE) : a \in {Abs(i)} })

FNeg(a) == Val({ IF IsNaN(x) THEN x ELSE [x EXCEPT !.s = -x.s] : x \in {a} })

\* x + y for finite x, y that are not zero, x.e >= y.e
FAddFinite(x, y) ==
    IF x.e - y.e >= 56 THEN x
    ELSE Val({ LET c == WCmp(X, Y)
               IN  IF x.s = y.s THEN RoundPack(x.s, WAdd(X, Y), y.e, FALSE)
                   ELSE IF c = 0 THEN Zero(1)
                   ELSE IF c > 0 THEN RoundPack(x.s, WSub(X, Y), y.e, FALSE)
                   ELSE RoundPack(y.s, WSub(Y, X), y.e, FALSE)
               : X \in {WShl(Wide(x.m), x.e - y.e)}, Y \in {Wide(y.m)} })

FAdd(a, b) ==
    Val({ IF IsNaN(x) \/ IsNaN(y) THEN NaN
          ELSE IF ~IsFinite(x) /\ ~IsFinite(y) THEN (IF x = y THEN x ELSE NaN)
          ELSE IF ~IsFinite(x) THEN x
          ELSE IF ~IsFinite(y) THEN y
          ELSE IF IsZero(x) /\ IsZero(y) THEN Zero(IF x.s = y.s THEN x.s ELSE 1)
          ELSE IF IsZero(x) THEN y
          ELSE IF IsZero(y) THEN x
          ELSE IF x.e >= y.e THEN FAddFinite(x, y)
          ELSE FAddFinite(y, x) : x \in {a}, y \in {b} })

FSub(a, b) == FAdd(a, FNeg(b))

FMul(a, b) ==
    Val({ IF IsNaN(x) \/ IsNaN(y) THEN NaN
          ELSE IF ~IsFinite(x) \/ ~IsFinite(y)
               THEN (IF IsZero(x) \/ IsZero(y) THEN NaN ELSE Inf(x.s * y.s))
          ELSE RoundPack(x.s * y.s, WMul(x.m, y.m), x.e + y.e, FALSE) : x \in {a}, y \in {b} })

\* the quotient digit q, known to be no more than the estimate and to fall
\* short of it by 2 at most, and the remainder of cur by v
DivDigit(cur, v, estimate) ==
    Val({ Val({ Val({ [q |-> q2, r |-> WSub(c, WMulSmall(v, q2))]
                      : q2 \in {IF WCmp(WMulSmall(v, q1), c) > 0 THEN q1 - 1 ELSE q1} })
                : q1 \in {IF WCmp(WMulSmall(v, q0), c) > 0 THEN q0 - 1 ELSE q0} })
          : c \in {cur}, q0 \in {estimate} })

\* one digit of a long division: the quotient q < Base and the remainder of
\* r * Base by v, for r < v and v of four limbs with v[4] >= Base / 2; the
\* estimate from the two top limbs exceeds q by at most 2
DivStep(r, v) ==
    Val({ DivDigit(<<0, x[1], x[2], x[3], x[4], 0, 0, 0>>, v,
                   IF (x[4] * Base + x[3]) \div v[4] > Base - 1 THEN Base - 1
                   ELSE (x[4] * Base + x[3]) \div v[4]) : x \in {r} })

\* the division st, a quotient q of limbs and a remainder r, taken one
\* digit further
DivMore(st, v) ==
    Val({ Val({ [q |-> <<d.q>> \o x.q, r |-> d.r] : d \in {DivStep(x.r, v)} })
          : x \in {st} })

\* a / b for finite a, b that are not zero: both scaled to 56 digits, then
\* 56 more digits of quotient by long division
FDivFinite(a, b) ==
    Val({ Val({ Val({ RoundPack(a.s * b.s,
                                <<d.q[1], d.q[2], d.q[3], d.q[4], d.q[5], 0, 0, 0>>,
                                a.e - b.e + La - Lb - 56, d.r # WZero)
                      : d \in {DivMore(DivMore(DivMore(DivMore(
                                  IF WCmp(u, v) >= 0 THEN [q |-> <<1>>, r |-> WSub(u, v)]
                                  ELSE [q |-> <<0>>, r |-> u], v), v), v), v)} })
                : u \in {WShl(Wide(a.m), 56 - La)}, v \in {WShl(Wide(b.m), 56 - Lb)} })
          : La \in {WBitLen(Wide(a.m))}, Lb \in {WBitLen(Wide(b.m))} })

\* the division a / b with a zero divisor turned into 0
FDivZeroIsZero(a, b) ==
    Val({ IF IsNaN(x) \/ IsNaN(y) THEN NaN
          ELSE IF ~IsFinite(x) /\ ~IsFinite(y) THEN NaN
          ELSE IF ~IsFinite(x) THEN Inf(x.s * y.s)
          ELSE IF ~IsFinite(y) THEN Zero(x.s * y.s)
          ELSE IF IsZero(y) THEN Zero(x.s * y.s)
          ELSE IF IsZero(x) THEN Zero(x.s * y.s)
          ELSE FDivFinite(x, y) : x \in {a}, y \in {b} })

\* a / b as numpy divides two cells: 0/0 is NaN, x/0 is +-inf
FDiv(a, b) ==
    Val({ IF IsNaN(x) \/ IsNaN(y) THEN NaN
          ELSE IF ~IsFinite(x) /\ ~IsFinite(y) THEN NaN
          ELSE IF ~IsFinite(x) THEN Inf(x.s * y.s)
          ELSE IF ~IsFinite(y) THEN Zero(x.s * y.s)
          ELSE IF IsZero(y) THEN (IF IsZero(x) THEN NaN ELSE Inf(x.s * y.s))
          ELSE IF IsZero(x) THEN Zero(x.s * y.s)
          ELSE FDivFinite(x, y) : x \in {a}, y \in {b} })

\* -1, 0, 1 as |a| < |b|, |a| = |b|, |a| > |b|, neither being NaN
MagCmp(a, b) ==
    IF ~IsFinite(a) THEN (IF ~IsFinite(b) THEN 0 ELSE 1)
    ELSE IF ~IsFinite(b) THEN -1
    ELSE IF a.e # b.e THEN (IF a.e < b.e THEN -1 ELSE 1)
    ELSE WCmp(Wide(a.m), Wide(b.m))

Sgn(x) == IF IsZero(x) THEN 0 ELSE x.s

FLe(a, b) ==
    Val({ IF IsNaN(x) \/ IsNaN(y) THEN FALSE
          ELSE IF Sgn(x) # Sgn(y) THEN Sgn(x) < Sgn(y)
          ELSE IF Sgn(x) = 0 THEN TRUE
          ELSE IF Sgn(x) = 1 THEN MagCmp(x, y) <= 0
          ELSE MagCmp(x, y) >= 0 : x \in {a}, y \in {b} })

\* a >= b
FGe(a, b) == FLe(b, a)

\* Natural numbers of any size, for the decimal literals: the limbs in base
\* 2^14, least significant first, the most significant limb not zero.
Limb(a, i) == IF i >= 1 /\ i <= Len(a) THEN a[i] ELSE 0

\* a without its leading zero limbs
BNorm(a) ==
    Val({ SubSeq(x, 1, CHOOSE i \in 0..Len(x) :
                          /\ i = 0 \/ x[i] # 0
                          /\ \A j \in (i + 1)..Len(x) : x[j] = 0) : x \in {a} })

\* the limbs of the sums s with their carries taken up; the carry into limb
\* i is 1 when a lower limb overflows and every limb between is full
Carried(s) ==
    Val({ BNorm([i \in DOMAIN x |->
                   (x[i] + (IF \E j \in 1..(i - 1) :
                                  x[j] >= Base /\ \A k \in (j + 1)..(i - 1) : x[k] = Base - 1
                            THEN 1 ELSE 0)) % Base]) : x \in {s} })

\* a + b
BAdd(a, b) ==
    Val({ Carried([i \in 1..((IF Len(x) < Len(y) THEN Len(y) ELSE Len(x)) + 1) |->
                     Limb(x, i) + Limb(y, i)]) : x \in {a}, y \in {b} })

\* the limbs of the differences d with their loans taken off; limb i lends
\* 1 when a lower limb falls short and every limb between is level
Lent(d) ==
    Val({ BNorm([i \in DOMAIN x |->
                   (x[i] - (IF \E j \in 1..(i - 1) :
                                  x[j] < 0 /\ \A k \in (j + 1)..(i - 1) : x[k] = 0
                            THEN 1 ELSE 0) + Base) % Base]) : x \in {d} })

\* a - b for a >= b
BSub(a, b) == Val({ Lent([i \in DOMAIN x |-> x[i] - Limb(y, i)]) : x \in {a}, y \in {b} })

\* a * k for 0 <= k <= Base
BMulSmall(a, k) ==
    Val({ BAdd(BNorm([i \in DOMAIN x |-> (x[i] * n) % Base]),
               BNorm([i \in 1..(Len(x) + 1) |->
                        IF i = 1 THEN 0 ELSE (x[i - 1] * n) \div Base]))
          : x \in {a}, n \in {k} })

\* a * Base^n
ShiftLimbs(a, n) == Val({ IF x = <<>> THEN <<>> ELSE [i \in 1..n |-> 0] \o x : x \in {a} })

\* the sum of a[i] * b * Base^(i-1) over the limbs i of a in lo..hi
RECURSIVE MulRange(_, _, _, _)
MulRange(a, b, lo, hi) ==
    IF lo = hi
    THEN (IF a[lo] = 0 THEN <<>> ELSE ShiftLimbs(BMulSmall(b, a[lo]), lo - 1))
    ELSE BAdd(MulRange(a, b, lo, (lo + hi) \div 2),
              MulRange(a, b, ((lo + hi) \div 2) + 1, hi))

BMul(a, b) ==
    Val({ IF x = <<>> \/ y = <<>> THEN <<>> ELSE MulRange(x, y, 1, Len(x))
          : x \in {a}, y \in {b} })

\* a * 2^k
BShl(a, k) ==
    Val({ Val({ ShiftLimbs(BNorm([i \in 1..(Len(x) + 1) |->
                                    (Limb(x, i) % P2[15 - b]) * P2[b + 1]
                                       + (Limb(x, i - 1) \div P2[15 - b])]),
                           n \div 14) : b \in {n % 14} })
          : x \in {a}, n \in {k} })

\* a \div 2^k
BShr(a, k) ==
    Val({ Val({ BNorm([i \in 1..Len(d) |->
                         (d[i] \div P2[b + 1]) + (Limb(d, i + 1) % P2[b + 1]) * P2[15 - b]])
                : d \in {SubSeq(x, (n \div 14) + 1, Len(x))}, b \in {n % 14} })
          : x \in {a}, n \in {k} })

\* the number of binary digits of a
BitLen(a) ==
    Val({ IF x = <<>> THEN 0 ELSE 14 * (Len(x) - 1) + Bits(x[Len(x)]) : x \in {a} })

\* -1, 0, 1 as a < b, a = b, a > b
BCmp(a, b) ==
    Val({ IF Len(x) # Len(y) THEN (IF Len(x) < Len(y) THEN -1 ELSE 1)
          ELSE IF x = y THEN 0
          ELSE LET k == CHOOSE i \in DOMAIN x :
                           x[i] # y[i] /\ \A j \in (i + 1)..Len(x) : x[j] = y[j]
               IN  IF x[k] < y[k] THEN -1 ELSE 1 : x \in {a}, y \in {b} })

\* q, or q - 1 when q * b exceeds cur
QFix(q, cur, b) ==
    Val({ IF n > 0 /\ BCmp(BMulSmall(b, n), cur) > 0 THEN n - 1 ELSE n : n \in {q} })

\* the quotient of cur by b, known to be less than Base, for a divisor b
\* whose top limb is at least Base / 2: the estimate from the two top limbs
\* exceeds the quotient by at most 2
QDigit(cur, b) ==
    Val({ QFix(QFix(IF t > Base - 1 THEN Base - 1 ELSE t, cur, b), cur, b)
          : t \in {(Limb(cur, Len(b) + 1) * Base + Limb(cur, Len(b))) \div b[Len(b)]} })

\* the division prev, a quotient q and a remainder r, taken one limb
\* further: the limb l of the dividend is the next one down
DivLimb(prev, l, b) ==
    Val({ Val({ Val({ [q |-> <<qd>> \o p.q,
                       r |-> IF qd = 0 THEN cur ELSE BSub(cur, BMulSmall(b, qd))]
                      : qd \in {QDigit(cur, b)} })
                : cur \in {BNorm(<<l>> \o p.r)} })
          : p \in {prev} })

\* long division of the limbs i.. of a by b, from the top limb down; the
\* top Len(b) - 1 limbs of a are the first remainder
RECURSIVE DivFrom(_, _, _)
DivFrom(a, b, i) ==
    IF i > Len(a) - Len(b) + 1
    THEN [q |-> <<>>, r |-> BNorm(SubSeq(a, i, Len(a)))]
    ELSE DivLimb(DivFrom(a, b, i + 1), a[i], b)

\* quotient and remainder of a by b # 0
BDivMod(a, b) ==
    Val({ IF BCmp(x, y) < 0 THEN [q |-> <<>>, r |-> x]
          ELSE Val({ Val({ [q |-> BNorm(d.q), r |-> BShr(d.r, sh)]
                           : d \in {Val({ DivFrom(as, bs, 1)
                                          : as \in {BShl(x, sh)}, bs \in {BShl(y, sh)} })} })
                     : sh \in {14 - Bits(y[Len(y)])} })
          : x \in {a}, y \in {b} })

\* s * (M + d) * 2^E rounded to the nearest binary64, as RoundPack, for M
\* of any size: the top eight limbs of M, any digit below them sticky
RoundBig(s, M, E, sticky) ==
    Val({ Val({ RoundPack(s, <<Limb(x, drop + 1), Limb(x, drop + 2), Limb(x, drop + 3),
                               Limb(x, drop + 4), Limb(x, drop + 5), Limb(x, drop + 6),
                               Limb(x, drop + 7), Limb(x, drop + 8)>>,
                          E + 14 * drop,
                          sticky \/ \E i \in 1..drop : x[i] # 0)
                : drop \in {IF Len(x) > 8 THEN Len(x) - 8 ELSE 0} })
          : x \in {M} })

RECURSIVE Pow10Big(_)
Pow10Big(k) ==
    IF k = 0 THEN <<1>>
    ELSE Val({ IF k % 2 = 1 THEN BMulSmall(BMul(h, h), 10) ELSE BMul(h, h)
               : h \in {Pow10Big(k \div 2)} })

\* the natural number with the decimal digit values ds[lo..hi]
RECURSIVE DigitsRange(_, _, _)
DigitsRange(ds, lo, hi) ==
    IF lo > hi THEN <<>>
    ELSE IF lo = hi THEN (IF ds[lo] = 0 THEN <<>> ELSE <<ds[lo]>>)
    ELSE BAdd(BMul(DigitsRange(ds, lo, (lo + hi) \div 2), Pow10Big(hi - (lo + hi) \div 2)),
              DigitsRange(ds, ((lo + hi) \div 2) + 1, hi))

BOfDigits(ds) == Val({ DigitsRange(x, 1, Len(x)) : x \in {ds} })

\* ds without its leading zeros
DropZeros(ds) ==
    Val({ SubSeq(x, CHOOSE i \in 1..(Len(x) + 1) :
                       /\ i = Len(x) + 1 \/ x[i] # 0
                       /\ \A j \in 1..(i - 1) : x[j] = 0, Len(x)) : x \in {ds} })

\* s * N / D as float() rounds it, for natural numbers N, D that are not
\* zero: the quotient taken to 56 digits or more, and a remainder
RoundQuotient(s, N, D) ==
    Val({ Val({ Val({ Val({ RoundBig(s, dm.q, -k, dm.r # <<>> \/ (k < 0 /\ BShl(A, -k) # n))
                            : dm \in {BDivMod(A, d)} })
                      : A \in {IF k >= 0 THEN BShl(n, k) ELSE BShr(n, -k)} })
                : k \in {56 + BitLen(d) - BitLen(n)} })
          : n \in {N}, d \in {D} })

\* s * ds * 10^e10 as float() rounds it, ds the values of decimal digits: a
\* literal of 310 digits or more before the point is beyond the largest
\* double, one that starts 330 places or more behind the point is below half
\* the smallest
FromDecimal(s, ds, e10) ==
    Val({ IF sig = <<>> THEN Zero(s)
          ELSE IF Len(sig) + e10 > 310 THEN Inf(s)
          ELSE IF Len(sig) + e10 < -330 THEN Zero(s)
          ELSE IF e10 >= 0 THEN RoundBig(s, BMul(BOfDigits(sig), Pow10Big(e10)), 0, FALSE)
          ELSE RoundQuotient(s, BOfDigits(sig), Pow10Big(-e10))
          : sig \in {DropZeros(ds)} })


\* Series.clip(upper=u) without the cap
ClipUpperNone(x, u) == x

\* Series.clip(upper=u) on one cell: NaN stays NaN, a larger value becomes u
ClipUpper(x, u) == Val({ IF IsNaN(v) THEN v ELSE IF FLe(v, u) THEN v ELSE u : v \in {x} })

\* Series.max(): the largest cell that is not NaN; NaN when there is none
SeriesMax(s) ==
    Val({ Val({ IF vals = {} THEN NaN
                ELSE CHOOSE m \in vals : \A v \in vals : FLe(v, m)
                : vals \in {{x[i] : i \in DOMAIN x} \ {NaN}} })
          : x \in {s} })

(***************************************************************************)
(* DataFrames.                                                             *)
(***************************************************************************)
\* data[c] as a sequence of cells
Col(df, c) == [i \in DOMAIN df.rows |-> df.rows[i][c]]

\* data[c] of an integer column, as floats
NumCol(df, c) == [i \in DOMAIN df.rows |-> FromInt(df.rows[i][c])]

\* data[c] = s: the column is added, or replaced when it exists
SetCol(df, c, s) ==
    [cols |-> df.cols \cup {c},
     rows |-> [i \in DOMAIN df.rows |->
                 [k \in DOMAIN df.rows[i] \cup {c} |->
                    IF k = c THEN s[i] ELSE df.rows[i][k]]]]

\* df[mask]: the rows whose mask is true, in their order, index labels kept
RECURSIVE SelectRows(_, _)
SelectRows(rows, mask) ==
    IF rows = <<>> THEN <<>>
    ELSE (IF mask[1] THEN <<Head(rows)>> ELSE <<>>)
         \o SelectRows(Tail(rows), Tail(mask))

BoolIndex(df, mask) == [cols |-> df.cols, rows |-> SelectRows(df.rows, mask)]

\* Series.unique(): the distinct cells in order of first appearance
RECURSIVE Unique(_)
Unique(s) ==
    IF s = <<>> THEN <<>>
    ELSE LET init == Unique(SubSeq(s, 1, Len(s) - 1))
             last == s[Len(s)]
         IN  IF \E i \in DOMAIN init : init[i] = last THEN init
             ELSE Append(init, last)


(***************************************************************************)
(* Strings that the code takes apart.                                      *)
(***************************************************************************)
\* the code points str.isspace() holds of (Unicode 14.0): the characters of
\* bidirectional type WS, B or S and those of category Zs
Whitespace ==
    {9, 10, 11, 12, 13, 28, 29, 30, 31, 32, 133, 160, 5760, 8192, 8193, 8194,
     8195, 8196, 8197, 8198, 8199, 8200, 8201, 8202, 8232, 8233, 8239, 8287,
     12288}

\* the whitespace str.split() separates on
IsSpace(c) == c \in Whitespace

\* the code point of the digit zero of every script of decimal digits
\* (category Nd of Unicode 14.0); its digits 1 to 9 follow it
DigitZeros ==
    {48, 1632, 1776, 1984, 2406, 2534, 2662, 2790, 2918, 3046, 3174, 3302,
     3430, 3558, 3664, 3792, 3872, 4160, 4240, 6112, 6160, 6470, 6608, 6784,
     6800, 6992, 7088, 7232, 7248, 42528, 43216, 43264, 43472, 43504, 43600,
     44016, 65296, 66720, 68912, 69734, 69872, 69942, 70096, 70384, 70736,
     70864, 71248, 71360, 71472, 71904, 72016, 72784, 73040, 73120, 92768,
     92864, 93008, 120782, 120792, 120802, 120812, 120822, 123200, 123632,
     125264, 130032}

\* c is a decimal digit of some script; float() reads every one of them
IsDigit(c) == \E z \in DigitZeros : z <= c /\ c <= z + 9
DigitVal(c) == c - (CHOOSE z \in DigitZeros : z <= c /\ c <= z + 9)

RECURSIVE DropSpaces(_)
DropSpaces(s) ==
    IF s # <<>> /\ IsSpace(Head(s)) THEN DropSpaces(Tail(s)) ELSE s

RECURSIVE TakeWord(_)
TakeWord(s) ==
    IF s = <<>> \/ IsSpace(Head(s)) THEN <<>>
    ELSE <<Head(s)>> \o TakeWord(Tail(s))

\* str.split(): the maximal runs of non-whitespace characters
RECURSIVE Split(_)
Split(s) ==
    LET t == DropSpaces(s)
        w == TakeWord(t)
    IN  IF t = <<>> THEN <<>>
        ELSE <<w>> \o Split(SubSeq(t, Len(w) + 1, Len(t)))

\* the letters float() takes in either case: A-Z as a-z
Lower(c) == IF 65 <= c /\ c <= 90 THEN c + 32 ELSE c

\* the whitespace float() strips from both ends of its argument: all of it
\* but the four separators U+001C to U+001F
IsFloatSpace(c) == IsSpace(c) /\ c \notin 28..31

\* s without the whitespace float() strips
Strip(s) ==
    LET keep == {i \in DOMAIN s : ~IsFloatSpace(s[i])}
    IN  IF keep = {} THEN <<>>
        ELSE SubSeq(s, CHOOSE i \in keep : \A j \in keep : i <= j,
                       CHOOSE i \in keep : \A j \in keep : j <= i)

\* s is a digitpart of a float literal: digits, with single underscores
\* (95) between digits only
IsDigitPart(s) ==
    /\ s # <<>>
    /\ IsDigit(s[1]) /\ IsDigit(s[Len(s)])
    /\ \A i \in DOMAIN s : IsDigit(s[i]) \/ s[i] = 95
    /\ \A i \in 1..(Len(s) - 1) : ~(s[i] = 95 /\ s[i + 1] = 95)

\* the part of s before its first c (all of s when it has none)
Before(s, c) ==
    IF \E i \in DOMAIN s : s[i] = c
    THEN SubSeq(s, 1, (CHOOSE i \in DOMAIN s :
                          s[i] = c /\ \A k \in 1..(i - 1) : s[k] # c) - 1)
    ELSE s

\* the part of s after its first c (empty when it has none)
After(s, c) == SubSeq(s, Len(Before(s, c)) + 2, Len(s))

\* the values of the digits of the digitpart s
DigitValues(s) ==
    LET ds == SelectSeq(s, IsDigit)
    IN  [i \in DOMAIN ds |-> DigitVal(ds[i])]

\* the number an exponent can be without changing the float: any exponent
\* of more than 8 digits is as good as this one
HugeExponent == 999999999

\* the natural number with the digit values ds
RECURSIVE DigitsValue(_)
DigitsValue(ds) ==
    IF ds = <<>> THEN 0
    ELSE 10 * DigitsValue(SubSeq(ds, 1, Len(ds) - 1)) + ds[Len(ds)]

\* the natural number with the digit values ds, HugeExponent at most
SmallValue(ds) ==
    IF Len(DropZeros(ds)) > 8 THEN HugeExponent ELSE DigitsValue(DropZeros(ds))

\* float(tok): whitespace stripped, then [sign] "inf" | "infinity" | "nan"
\* in any case, or [sign] digitpart ["." [digitpart]] | "." digitpart, then
\* an optional exponent "e" [sign] digitpart; anything else raises
\* ValueError.  43 is "+", 45 "-", 46 ".", 101 "e".
ParseFloat(tok) ==
    LET t0 == Strip(tok)
        signed == t0 # <<>> /\ t0[1] \in {43, 45}
        sign == IF signed /\ t0[1] = 45 THEN -1 ELSE 1
        body == LET t == IF signed THEN Tail(t0) ELSE t0
                IN  [i \in DOMAIN t |-> Lower(t[i])]
        hasExp == \E i \in DOMAIN body : body[i] = 101
        mant == Before(body, 101)
        expo == After(body, 101)
        expSigned == expo # <<>> /\ expo[1] \in {43, 45}
        expSign == IF expSigned /\ expo[1] = 45 THEN -1 ELSE 1
        expDigits == IF expSigned THEN Tail(expo) ELSE expo
        intPart == Before(mant, 46)
        fracPart == After(mant, 46)
        wellFormed ==
            /\ intPart = <<>> \/ IsDigitPart(intPart)
            /\ fracPart = <<>> \/ IsDigitPart(fracPart)
            /\ intPart # <<>> \/ fracPart # <<>>
            /\ hasExp => IsDigitPart(expDigits)
        fracDigits == DigitValues(fracPart)
        e10 == (IF hasExp THEN expSign * SmallValue(DigitValues(expDigits))
                ELSE 0) - Len(fracDigits)
        ok(v) == [ok |-> TRUE, v |-> v, exc |-> ""]
    IN  IF body \in {<<105, 110, 102>>,
                     <<105, 110, 102, 105, 110, 105, 116, 121>>}
        THEN ok(Inf(sign))
        ELSE IF body = <<110, 97, 110>> THEN ok(NaN)
        ELSE IF wellFormed
        THEN ok(FromDecimal(sign, DigitValues(intPart) \o fracDigits, e10))
        ELSE [ok |-> FALSE, v |-> NaN, exc |-> "ValueError"]

\* lambda x: float(x.split()[0]) / 1000
SpeedLambda(x) ==
    LET toks == Split(x)
    IN  IF toks = <<>> THEN [ok |-> FALSE, v |-> NaN, exc |-> "IndexError"]
        ELSE LET f == ParseFloat(toks[1])
             IN  IF f.ok THEN [ok |-> TRUE, v |-> FDiv(f.v, FromInt(1000)), exc |-> ""]
                 ELSE f

(***************************************************************************)
(* The preprocessing block.                                                *)
(***************************************************************************)
\* W1, W2, W3, W4, W5 = 0.40, 0.25, 0.20, 0.05, 0.10: the doubles nearest
\* to the literals, 0x1.999999999999ap-2, 0x1p-2, 0x1.999999999999ap-3,
\* 0x1.999999999999ap-5 and 0x1.999999999999ap-4
W1 == [k |-> "fin", s |-> 1, m |-> <<6554, 9830, 6553, 1638>>, e |-> -54]
W2 == [k |-> "fin", s |-> 1, m |-> <<0, 0, 0, 1024>>, e |-> -54]
W3 == [k |-> "fin", s |-> 1, m |-> <<6554, 9830, 6553, 1638>>, e |-> -55]
W4 == [k |-> "fin", s |-> 1, m |-> <<6554, 9830, 6553, 1638>>, e |-> -57]
W5 == [k |-> "fin", s |-> 1, m |-> <<6554, 9830, 6553, 1638>>, e |-> -56]

\* data[c] / data[c].max()
DivByMax(df, c) ==
    Val({ Val({ [i \in DOMAIN s |-> FDiv(s[i], m)] : m \in {SeriesMax(s)} })
          : s \in {NumCol(df, c)} })

\* 1 - (data['Churn'] / data['Port Use']).clip(upper=1)
OneMinusC(df) ==
    [i \in DOMAIN df.rows |->
       FSub(FromInt(1),
            ClipUpper(FDiv(FromInt(df.rows[i]["Churn"]), FromInt(df.rows[i]["Port Use"])),
                      FromInt(1)))]

\* data['True Speed'].apply(lambda ...): the outcome for every row
SpeedOutcomes(df) ==
    [i \in DOMAIN df.rows |-> SpeedLambda(df.rows[i]["True Speed"])]

\* W1*H + W2*I + W3*(1-C) + W4*M + W5*S, row by row: five products summed
\* from the left, each operation rounded
RawScore(df) ==
    [i \in DOMAIN df.rows |->
       LET r == df.rows[i]
       IN  FAdd(FAdd(FAdd(FAdd(FMul(W1, r["H"]), FMul(W2, r["I"])),
                          FMul(W3, r["1-C"])),
                     FMul(W4, r["M"])),
                FMul(W5, r["S"]))]

\* the last step without the division by the maximum
NormalizeNoMax(df) ==
    [i \in DOMAIN df.rows |-> FMul(df.rows[i]["Potential Score"], FromInt(100))]

\* (data['Potential Score'] / data['Potential Score'].max()) * 100
Normalize(df) ==
    Val({ [i \in DOMAIN df.rows |->
             FMul(FDiv(df.rows[i]["Potential Score"], m), FromInt(100))]
          : m \in {SeriesMax(Col(df, "Potential Score"))} })

(***************************************************************************)
(* The CSV files the model is run on.                                      *)
(***************************************************************************)
MkRow(p, d, sd, hb, hh, inst, ch, pu, util, mst, speed, na) ==
    ("Province" :> p) @@ ("District" :> d) @@ ("Sub-district" :> sd) @@
    ("Happy Block" :> hb) @@ ("Household" :> hh) @@ ("Install" :> inst) @@
    ("Churn" :> ch) @@ ("Port Use" :> pu) @@ ("Port Utilization (%)" :> util) @@
    ("Market Share True (%)" :> mst) @@ ("True Speed" :> speed) @@
    ("Net Add" :> na)

AllCols ==
    {"Province", "District", "Sub-district", "Happy Block", "Household",
     "Install", "Churn", "Port Use", "Port Utilization (%)",
     "Market Share True (%)", "True Speed", "Net Add"}

\* the columns the preprocessing block reads
PreCols ==
    {"Household", "Install", "Churn", "Port Use", "Market Share True (%)",
     "True Speed"}

\* True Speed cells, as code points
\* '850 Mbps'
Mbps850 == <<56, 53, 48, 32, 77, 98, 112, 115>>
\* '1200 Mbps'
Mbps1200 == <<49, 50, 48, 48, 32, 77, 98, 112, 115>>
\* '0.5 Gbps'
Gbps05 == <<48, 46, 53, 32, 71, 98, 112, 115>>
\* '0 Mbps'
Mbps0 == <<48, 32, 77, 98, 112, 115>>
\* '850' U+000B 'Mbps': a vertical tab before the unit
MbpsVT == <<56, 53, 48, 11, 77, 98, 112, 115>>
\* U+3000, fullwidth '850', U+00A0, 'Mbps'
MbpsWide == <<12288, 65304, 65301, 65296, 160, 77, 98, 112, 115>>
\* '-1e4 Mbps'
MbpsNeg == <<45, 49, 101, 52, 32, 77, 98, 112, 115>>
\* '1e400 Mbps'
MbpsHuge == <<49, 101, 52, 48, 48, 32, 77, 98, 112, 115>>
\* 'inf Mbps'
MbpsInf == <<105, 110, 102, 32, 77, 98, 112, 115>>
\* 'nan Mbps'
MbpsNaN == <<110, 97, 110, 32, 77, 98, 112, 115>>
\* 'Mbps'
NoNumber == <<77, 98, 112, 115>>
\* ' '
Blank == <<32>>
\* U+000B alone
OnlyVT == <<11>>

Provinces == {"A", "B"}
Districts == {"X", "Y"}
Subdistricts == {"S1", "S2"}
HappyBlocks == {"H1", "H2"}

\* the lines of the files of Spec: four well-formed rows, two rows whose
\* True Speed has no leading number, and one line pd.read_csv skips
GoodLines ==
    { MkRow("A", "Y", "S1", "H1", 2, 1, 1, 2, 50, 40, Mbps850, 2),
      MkRow("B", "X", "S1", "H2", 4, 2, 3, 2, 80, 20, Mbps1200, -1),
      MkRow("A", "Y", "S2", "H2", 0, 0, 0, 0, 0, 0, Mbps850, 0),
      MkRow("B", "Y", "S2", "H1", 4, 1, 0, 4, 100, 60, Gbps05, 3) }

BadSpeedLines ==
    { MkRow("A", "X", "S1", "H1", 2, 1, 1, 2, 50, 40, NoNumber, 2),
      MkRow("B", "Y", "S2", "H2", 2, 1, 1, 2, 50, 40, Blank, 2) }

FileLines ==
    [bad : {FALSE}, cells : GoodLines \cup BadSpeedLines]
    \cup [bad : {TRUE}, cells : {CHOOSE r \in GoodLines : TRUE}]

\* Household, Install, Churn, Port Use and Market Share True (%) of the
\* lines of SpecScore at '850 Mbps': with Port Use > 0, every column with
\* and without a zero, Churn below and above Port Use, and two rows whose
\* raw scores differ in the last binary digit only (the first two); with
\* Port Use = 0, a zero, a positive and a negative Churn
ScoreCounts ==
    { <<0, 1, 1, 2, 50>>, <<2, 0, 3, 2, 0>>, <<2, 1, 1, 2, 50>>,
      <<0, 0, 1, 2, 0>>, <<2, 0, 1, 2, 0>>,
      <<2, 1, 0, 0, 50>>, <<2, 1, 1, 0, 50>>, <<0, 0, 0, 0, 0>>,
      <<2, 0, 1, 0, 0>>, <<2, 1, -1, 0, 50>> }

\* the lines of the files of SpecScore: the counts above at one speed, rows
\* at other speeds (other whitespace and digits, a negative number, a
\* literal beyond the doubles, an infinite and a NaN number, and no number
\* at all), and two rows whose raw score is 0 when another row holds the
\* maxima
ScoreLines ==
    [bad : {FALSE},
     cells : { MkRow("A", "Y", "S1", "H1", c[1], c[2], c[3], c[4], 50, c[5], Mbps850, 0) :
                 c \in ScoreCounts }
             \cup { MkRow("A", "Y", "S1", "H1", 2, 1, 0, 2, 50, 50, sp, 0) :
                 sp \in {Gbps05, MbpsVT, MbpsWide, MbpsNeg, MbpsHuge, MbpsInf,
                         MbpsNaN, OnlyVT} }
             \cup { MkRow("A", "Y", "S1", "H1", 0, 0, cp[1], cp[2], 50, 0, Mbps0, 0) :
                 cp \in {<<1, 0>>, <<3, 2>>} }]

SeqsUpTo(S, n) == UNION {[1..k -> S] : k \in 0..n}

CsvFile(cols, lines) == [kind |-> "csv", cols |-> cols, lines |-> lines]

\* a file without column c
DropColumn(f, c) ==
    [kind |-> "csv", cols |-> f.cols \ {c},
     lines |-> [i \in DOMAIN f.lines |->
                  [bad |-> f.lines[i].bad,
                   cells |-> [k \in DOMAIN f.lines[i].cells \ {c} |->
                                f.lines[i].cells[k]]]]]

\* files pd.read_csv cannot read: one it cannot tokenize, one that is absent
Unreadable ==
    { [kind |-> "unparsable", cols |-> {}, lines |-> <<>>],
      [kind |-> "absent", cols |-> {}, lines |-> <<>>] }

Closed == [kind |-> "closed", cols |-> {}, lines |-> <<>>]

Files ==
    LET full == {CsvFile(AllCols, l) : l \in SeqsUpTo(FileLines, MaxRows)}
    IN  full
        \cup {DropColumn(f, c) : f \in {g \in full : Len(g.lines) <= 1}, c \in PreCols}
        \cup Unreadable

ScoreFiles ==
    LET full == {CsvFile(AllCols, l) : l \in SeqsUpTo(ScoreLines, MaxScoreRows)}
    IN  (full \ {CsvFile(AllCols, <<>>)})
        \cup {DropColumn(f, c) : f \in {g \in full : Len(g.lines) = 0}, c \in PreCols}
        \cup Unreadable

(***************************************************************************)
(* Loading.                                                                *)
(***************************************************************************)
\* pd.read_csv(..., on_bad_lines='skip'): the lines it can split into the
\* header's fields, in file order, labelled 0, 1, 2, ...
read_csv(f) ==
    LET kept == SelectSeq(f.lines, LAMBDA l : ~l.bad)
    IN  [cols |-> f.cols,
         rows |-> [i \in DOMAIN kept |-> kept[i].cells @@ ("idx" :> i - 1)]]

NoFrame == [cols |-> {}, rows |-> <<>>]
NoLayout ==
    [built |-> FALSE, provinceOptions |-> <<>>, netAddValue |-> <<0, 0>>,
     potentialValue |-> <<0, 0>>, utilizationValue |-> <<0, 0>>,
     marketShareValue |-> <<0, 0>>]
NoCall == [fn |-> "none", args |-> <<>>]

\* where the script is after the exit() of the two handlers of the load
LoadExceptPc == "exited"

\* the preprocessing handler without its exit()
PreprocessExceptFallThrough == "layout"

\* where the script is after the exit() of the preprocessing handler
PreprocessExceptPc == "exited"

Load ==
    /\ pc = "load"
    /\ file' = Closed
    /\ IF file.kind = "csv"
       THEN /\ data' = read_csv(file)
            /\ stdout' = Append(stdout, "Dataset loaded successfully.")
            /\ pc' = "pre_H"
       ELSE /\ data' = data
            /\ stdout' = Append(stdout,
                   IF file.kind = "unparsable"
                   THEN "ParserError while loading the dataset:"
                   ELSE "Unexpected error while loading the dataset:")
            /\ pc' = LoadExceptPc
    /\ UNCHANGED <<layout, call, result>>

\* except Exception as e: print("Error during preprocessing:", e); exit()
PreprocessFailed ==
    /\ stdout' = Append(stdout, "Error during preprocessing:")
    /\ pc' = PreprocessExceptPc
    /\ UNCHANGED <<file, data, layout, call, result>>

\* one assignment data[dst] = column of the try block; a missing source
\* column raises KeyError
PreStep(here, srcs, dst, column, next) ==
    /\ pc = here
    /\ IF srcs \subseteq data.cols
       THEN /\ data' = SetCol(data, dst, column)
            /\ pc' = next
            /\ UNCHANGED <<file, stdout, layout, call, result>>
       ELSE PreprocessFailed

PreH == PreStep("pre_H", {"Household"}, "H", DivByMax(data, "Household"), "pre_I")
PreI == PreStep("pre_I", {"Install"}, "I", DivByMax(data, "Install"), "pre_C")
PreC == PreStep("pre_C", {"Churn", "Port Use"}, "1-C", OneMinusC(data), "pre_M")
PreM ==
    PreStep("pre_M", {"Market Share True (%)"}, "M",
            DivByMax(data, "Market Share True (%)"), "pre_S")

PreS ==
    /\ pc = "pre_S"
    /\ IF "True Speed" \in data.cols
       THEN LET out == SpeedOutcomes(data)
            IN  IF \A i \in DOMAIN out : out[i].ok
                THEN /\ data' = SetCol(data, "S", [i \in DOMAIN out |-> out[i].v])
                     /\ pc' = "pre_raw"
                     /\ UNCHANGED <<file, stdout, layout, call, result>>
                ELSE PreprocessFailed
       ELSE PreprocessFailed

PreRaw ==
    PreStep("pre_raw", {"H", "I", "1-C", "M", "S"}, "Potential Score",
            RawScore(data), "pre_norm")
PreNorm ==
    PreStep("pre_norm", {"Potential Score"}, "Potential Score",
            Normalize(data), "layout")

(***************************************************************************)
(* The layout and the server.                                              *)
(***************************************************************************)
IntMin(s) == CHOOSE m \in {s[i] : i \in DOMAIN s} : \A i \in DOMAIN s : m <= s[i]
IntMax(s) == CHOOSE m \in {s[i] : i \in DOMAIN s} : \A i \in DOMAIN s : m >= s[i]

\* app.layout: the Province options and the value= of the four RangeSliders
app_layout(df) ==
    [built |-> TRUE,
     provinceOptions |-> Unique(Col(df, "Province")),
     netAddValue |-> <<IntMin(Col(df, "Net Add")), IntMax(Col(df, "Net Add"))>>,
     potentialValue |-> <<0, 100>>,
     utilizationValue |-> <<0, 100>>,
     marketShareValue |-> <<0, 100>>]

\* Building the layout of an empty frame raises in int(data['Net Add'].min())
\* (the minimum is NaN); nothing catches it and the script dies.
BuildLayout ==
    /\ pc = "layout"
    /\ IF data.rows = <<>>
       THEN pc' = "crashed" /\ layout' = layout
       ELSE pc' = "main" /\ layout' = app_layout(data)
    /\ UNCHANGED <<file, data, stdout, call, result>>

\* if __name__ == '__main__': app.run_server(debug=True)
RunServer ==
    /\ pc = "main"
    /\ pc' = "serving"
    /\ UNCHANGED <<file, data, stdout, layout, call, result>>

(***************************************************************************)
(* The callbacks.                                                          *)
(***************************************************************************)
\* the value of a cleared Dropdown
None == "None"

\* `if v:` for a Dropdown value
Truthy(v) == v # None /\ v # ""

\* df[df[c] == v] that keeps df when no row matches
WhereEqOrAll(df, c, v) ==
    LET hit == BoolIndex(df, [i \in DOMAIN df.rows |-> df.rows[i][c] = v])
    IN  IF hit.rows = <<>> THEN df ELSE hit

\* df[df[c] == v]
WhereEq(df, c, v) == BoolIndex(df, [i \in DOMAIN df.rows |-> df.rows[i][c] = v])

\* the comparisons of a range with both ends left out
InRangeStrict(x, range) ==
    /\ FGe(x, FromInt(range[1])) /\ x # FromInt(range[1])
    /\ FLe(x, FromInt(range[2])) /\ x # FromInt(range[2])

\* (df[c] >= range[0]) & (df[c] <= range[1]) for one cell x
InRange(x, range) == FGe(x, FromInt(range[1])) /\ FLe(x, FromInt(range[2]))

\* `if v: filtered = filtered[filtered[c] == v]`
Narrow(df, c, v) == IF Truthy(v) THEN WhereEq(df, c, v) ELSE df

\* the local `filtered` of update_subdistrict_filter before its return
subdistrict_filtered(df, selected_province, selected_district) ==
    Narrow(Narrow(df, "Province", selected_province),
           "District", selected_district)

\* the local `filtered` of update_happyblock_filter before its return
happyblock_filtered(df, selected_province, selected_district, selected_subdistrict) ==
    Narrow(Narrow(Narrow(df, "Province", selected_province),
                  "District", selected_district),
           "Sub-district", selected_subdistrict)

\* update_district_filter without the filter on the province
update_district_filter_unfiltered(df, selected_province) ==
    IF Truthy(selected_province) THEN Unique(Col(df, "District")) ELSE <<>>

\* the option values update_district_filter returns (label = value)
update_district_filter(df, selected_province) ==
    IF Truthy(selected_province)
    THEN Unique(Col(WhereEq(df, "Province", selected_province), "District"))
    ELSE <<>>

update_subdistrict_filter(df, selected_province, selected_district) ==
    Unique(Col(subdistrict_filtered(df, selected_province, selected_district),
               "Sub-district"))

update_happyblock_filter(df, selected_province, selected_district, selected_subdistrict) ==
    Unique(Col(happyblock_filtered(df, selected_province, selected_district,
                                   selected_subdistrict),
               "Happy Block"))

\* the local `filtered_data` of update_map, which it hands to
\* px.scatter_mapbox
update_map(df, selected_province, selected_district, selected_subdistrict, selected_happyblock, net_add_range, potential_range, utilization_range, market_share_range) ==
    LET f == Narrow(Narrow(Narrow(Narrow(df, "Province", selected_province),
                                  "District", selected_district),
                           "Sub-district", selected_subdistrict),
                    "Happy Block", selected_happyblock)
    IN  BoolIndex(f,
          [i \in DOMAIN f.rows |->
             /\ InRange(FromInt(f.rows[i]["Net Add"]), net_add_range)
             /\ InRange(f.rows[i]["Potential Score"], potential_range)
             /\ InRange(FromInt(f.rows[i]["Port Utilization (%)"]),
                        utilization_range)
             /\ InRange(FromInt(f.rows[i]["Market Share True (%)"]),
                        market_share_range)])

\* a callback that binds what it filtered to the global name `data`
GlobalDataRebound(df, filtered) == filtered

\* the global `data` after a callback whose local frame is `filtered`:
\* data.copy() and df[mask] make new frames and only local names are bound
GlobalDataAfter(df, filtered) == df

\* the values the controls can send
ProvinceValues == Provinces \cup {None}
DistrictValues == Districts \cup {None}
SubdistrictValues == Subdistricts \cup {None}
HappyBlockValues == HappyBlocks \cup {None}
NetAddRanges == {layout.netAddValue, <<0, 2>>}
PotentialRanges == {layout.potentialValue, <<100, 100>>}
UtilizationRanges == {layout.utilizationValue, <<50, 80>>}
MarketShareRanges == {layout.marketShareValue, <<20, 40>>}

\* The server runs one callback request at a time: its arguments, its
\* return value and its effect on the global frame.
Callback(fn, args, returned, filtered) ==
    /\ pc = "serving"
    /\ call = NoCall
    /\ call' = [fn |-> fn, args |-> args]
    /\ result' = returned
    /\ data' = GlobalDataAfter(data, filtered)
    /\ UNCHANGED <<pc, file, stdout, layout>>

UpdateDistrictFilter ==
    \E p \in ProvinceValues :
        Callback("update_district_filter", [province |-> p],
                 update_district_filter(data, p),
                 Narrow(data, "Province", p))

UpdateSubdistrictFilter ==
    \E p \in ProvinceValues, d \in DistrictValues :
        Callback("update_subdistrict_filter", [province |-> p, district |-> d],
                 update_subdistrict_filter(data, p, d),
                 subdistrict_filtered(data, p, d))

UpdateHappyblockFilter ==
    \E p \in ProvinceValues, d \in DistrictValues, sd \in SubdistrictValues :
        Callback("update_happyblock_filter",
                 [province |-> p, district |-> d, subdistrict |-> sd],
                 update_happyblock_filter(data, p, d, sd),
                 happyblock_filtered(data, p, d, sd))

UpdateMap ==
    \E p \in ProvinceValues, d \in DistrictValues, sd \in SubdistrictValues,
       hb \in HappyBlockValues, na \in NetAddRanges, ps \in PotentialRanges,
       ut \in UtilizationRanges, ms \in MarketShareRanges :
        LET shown == update_map(data, p, d, sd, hb, na, ps, ut, ms)
        IN  Callback("update_map",
                     [province |-> p, district |-> d, subdistrict |-> sd,
                      happyblock |-> hb, net_add |-> na, potential |-> ps,
                      utilization |-> ut, market_share |-> ms],
                     shown.rows, shown)

\* The response is sent; the server keeps nothing of the request.
Respond ==
    /\ pc = "serving"
    /\ call # NoCall
    /\ call' = NoCall
    /\ result' = <<>>
    /\ UNCHANGED <<pc, file, data, stdout, layout>>

(***************************************************************************)
(* The specifications.                                                     *)
(***************************************************************************)
InitWith(files) ==
    /\ pc = "load"
    /\ file \in files
    /\ data = NoFrame
    /\ stdout = <<>>
    /\ layout = NoLayout
    /\ call = NoCall
    /\ result = <<>>

Init == InitWith(Files)

Next ==
    \/ Load
    \/ PreH \/ PreI \/ PreC \/ PreM \/ PreS \/ PreRaw \/ PreNorm
    \/ BuildLayout
    \/ RunServer
    \/ UpdateDistrictFilter
    \/ UpdateSubdistrictFilter
    \/ UpdateHappyblockFilter
    \/ UpdateMap
    \/ Respond

\* the whole program on small files of varied geography and ranges
Spec == Init /\ [][Next]_vars

InitScore == InitWith(ScoreFiles)

NextScore ==
    \/ Load
    \/ PreH \/ PreI \/ PreC \/ PreM \/ PreS \/ PreRaw \/ PreNorm
    \/ BuildLayout

\* the load and the scoring pass on files of varied counts
SpecScore == InitScore /\ [][NextScore]_vars

(***************************************************************************)
(* Properties.                                                             *)
(***************************************************************************)
Called(fn) == pc = "serving" /\ call.fn = fn

\* the scoring pass is over
ScoringDone == pc \in {"layout", "main", "serving", "crashed"}

\* lo <= x <= hi for a float cell x and integers lo, hi; NaN is in no range
Between(x, lo, hi) == FLe(FromInt(lo), x) /\ FLe(x, FromInt(hi))

\* row r satisfies every constraint of the arguments a of update_map
Satisfies(r, a) ==
    /\ a.province # None => r["Province"] = a.province
    /\ a.district # None => r["District"] = a.district
    /\ a.subdistrict # None => r["Sub-district"] = a.subdistrict
    /\ a.happyblock # None => r["Happy Block"] = a.happyblock
    /\ a.net_add[1] <= r["Net Add"] /\ r["Net Add"] <= a.net_add[2]
    /\ Between(r["Potential Score"], a.potential[1], a.potential[2])
    /\ a.utilization[1] <= r["Port Utilization (%)"]
    /\ r["Port Utilization (%)"] <= a.utilization[2]
    /\ a.market_share[1] <= r["Market Share True (%)"]
    /\ r["Market Share True (%)"] <= a.market_share[2]

\* C1: the rows update_map passes to rendering are exactly the rows of the
\* base dataset that satisfy every set equality selection and every
\* inclusive range, each once and in the order of the dataset.
C1_MainFilterExact ==
    Called("update_map") =>
        /\ \A i \in DOMAIN result : \E j \in DOMAIN data.rows : result[i] = data.rows[j]
        /\ \A j \in DOMAIN data.rows :
              Satisfies(data.rows[j], call.args)
                  <=> \E i \in DOMAIN result : result[i] = data.rows[j]
        /\ \A i, k \in DOMAIN result : i < k => result[i]["idx"] < result[k]["idx"]

\* C1 happens: a province is selected, Net Add is narrowed to [0, 2], a row
\* on an end of that range is shown and another row is left out.
C1_Witness ==
    /\ Called("update_map")
    /\ call.args.province # None
    /\ call.args.net_add = <<0, 2>>
    /\ \E i \in DOMAIN result : result[i]["Net Add"] \in {0, 2}
    /\ Len(result) < Len(data.rows)

\* no count of the dataset is negative and no denominator of the scoring
\* pass is zero
NonDegenerate(df) ==
    /\ df.rows # <<>>
    /\ \A i \in DOMAIN df.rows :
          /\ df.rows[i]["Household"] >= 0 /\ df.rows[i]["Install"] >= 0
          /\ df.rows[i]["Churn"] >= 0 /\ df.rows[i]["Port Use"] > 0
          /\ df.rows[i]["Market Share True (%)"] >= 0
    /\ \E i \in DOMAIN df.rows : df.rows[i]["Household"] > 0
    /\ \E i \in DOMAIN df.rows : df.rows[i]["Install"] > 0
    /\ \E i \in DOMAIN df.rows : df.rows[i]["Market Share True (%)"] > 0

\* some row of df holds the Potential Score 100 and a raw weighted score
\* that none exceeds
MaxRowScores100(df) ==
    \E i \in DOMAIN df.rows :
        /\ df.rows[i]["Potential Score"] = FromInt(100)
        /\ RawScore(df)[i] = SeriesMax(RawScore(df))

\* C2 as stated: after the scoring pass over a non-degenerate dataset every
\* Potential Score lies in [0, 100], and a row of maximal raw weighted score
\* scores exactly 100.
C2_ScoreRange ==
    (ScoringDone /\ NonDegenerate(data)) =>
        /\ \A i \in DOMAIN data.rows :
              Between(data.rows[i]["Potential Score"], 0, 100)
        /\ MaxRowScores100(data)

\* float() of the number that leads every True Speed is finite and not
\* negative
SpeedsNonNegative(df) ==
    \A i \in DOMAIN df.rows :
        IsFinite(df.rows[i]["S"]) /\ FLe(FromInt(0), df.rows[i]["S"])

\* C2, amended: after the scoring pass over a non-degenerate dataset in
\* which float() of the number leading every True Speed is finite and not
\* negative, every Potential Score lies in [0, 100], and a row of maximal raw
\* weighted score scores exactly 100.
C2_ScoreRangeAmended ==
    (ScoringDone /\ NonDegenerate(data) /\ SpeedsNonNegative(data)) =>
        /\ \A i \in DOMAIN data.rows :
              Between(data.rows[i]["Potential Score"], 0, 100)
        /\ MaxRowScores100(data)

\* C2 happens: a scored non-degenerate dataset with finite non-negative
\* speeds, a row at 100 and a row strictly between 0 and 100.
C2_Witness ==
    /\ ScoringDone /\ NonDegenerate(data) /\ SpeedsNonNegative(data)
    /\ \E i, j \in DOMAIN data.rows :
          /\ data.rows[i]["Potential Score"] = FromInt(100)
          /\ data.rows[j]["Potential Score"] # FromInt(100)
          /\ Between(data.rows[j]["Potential Score"], 1, 99)

\* a scored non-degenerate dataset with a negative Potential Score
C2_NegativeScoreReached ==
    /\ ScoringDone /\ NonDegenerate(data)
    /\ \E i \in DOMAIN data.rows :
          /\ IsFinite(data.rows[i]["Potential Score"])
          /\ ~FLe(FromInt(0), data.rows[i]["Potential Score"])

\* the rows of df that match the set selections among province p, district
\* d and sub-district sd
Under(df, p, d, sd) ==
    {j \in DOMAIN df.rows :
        /\ p # None => df.rows[j]["Province"] = p
        /\ d # None => df.rows[j]["District"] = d
        /\ sd # None => df.rows[j]["Sub-district"] = sd}

\* options lists the values of column c over the rows js of df without
\* duplicates and in the order in which the values first appear
DistinctFirstSeen(options, df, js, c) ==
    LET first(v) == CHOOSE j \in js :
                        /\ df.rows[j][c] = v
                        /\ \A k \in js : df.rows[k][c] = v => j <= k
    IN  /\ {options[i] : i \in DOMAIN options} = {df.rows[j][c] : j \in js}
        /\ \A i, k \in DOMAIN options : i < k => options[i] # options[k]
        /\ \A i, k \in DOMAIN options : i < k => first(options[i]) < first(options[k])

\* C3: each option-discovery query applies the selections of the levels
\* above it only: the District options with a province selected, the
\* Sub-district options and the Happy Block options are the distinct values
\* of their column over the rows matching the set selections above, in
\* first-seen order.
C3_OptionDiscovery ==
    /\ (Called("update_district_filter") /\ call.args.province # None) =>
          DistinctFirstSeen(result, data,
                            Under(data, call.args.province, None, None), "District")
    /\ Called("update_subdistrict_filter") =>
          DistinctFirstSeen(result, data,
                            Under(data, call.args.province, call.args.district, None),
                            "Sub-district")
    /\ Called("update_happyblock_filter") =>
          DistinctFirstSeen(result, data,
                            Under(data, call.args.province, call.args.district,
                                  call.args.subdistrict),
                            "Happy Block")

\* C3 happens: District options of a selected province that leave out a
\* district of another province.
C3_Witness ==
    /\ Called("update_district_filter")
    /\ call.args.province # None
    /\ result # <<>>
    /\ \E j \in DOMAIN data.rows :
          \A i \in DOMAIN result : result[i] # data.rows[j]["District"]

\* C4: with no province selected the District option-discovery query
\* returns the distinct District values of the whole dataset.
C4_UnsetProvinceIsWildcard ==
    (Called("update_district_filter") /\ call.args.province = None) =>
        DistinctFirstSeen(result, data, DOMAIN data.rows, "District")

\* every selection is unset and every range is the value= of its slider
AllDefaults(a) ==
    /\ a.province = None /\ a.district = None
    /\ a.subdistrict = None /\ a.happyblock = None
    /\ a.net_add = layout.netAddValue
    /\ a.potential = layout.potentialValue
    /\ a.utilization = layout.utilizationValue
    /\ a.market_share = layout.marketShareValue

\* C5: with every selection unset and every range at its default, the main
\* filter query returns every row of the loaded dataset.
C5_DefaultsKeepEveryRow ==
    (Called("update_map") /\ AllDefaults(call.args)) => result = data.rows

\* the district d is selected and no row under the selected province has it
StaleDistrict(df, p, d) == d # None /\ Under(df, p, d, None) = {}

\* the sub-district sd is selected and no row under the selected province
\* and district has it
StaleSubdistrict(df, p, d, sd) == sd # None /\ Under(df, p, d, sd) = {}

\* the happy block hb is selected and no row under the selected province,
\* district and sub-district has it
StaleHappyblock(df, p, d, sd, hb) ==
    /\ hb # None
    /\ \A j \in Under(df, p, d, sd) : df.rows[j]["Happy Block"] # hb

\* C6: with a selection that is not present under the selected higher
\* levels, the main filter query returns no row and every option-discovery
\* query of a level below that selection returns no option.
C6_StaleSelection ==
    /\ Called("update_map") =>
          LET a == call.args
          IN  (\/ StaleDistrict(data, a.province, a.district)
               \/ StaleSubdistrict(data, a.province, a.district, a.subdistrict)
               \/ StaleHappyblock(data, a.province, a.district, a.subdistrict,
                                  a.happyblock))
              => result = <<>>
    /\ Called("update_subdistrict_filter") =>
          (StaleDistrict(data, call.args.province, call.args.district)
              => result = <<>>)
    /\ Called("update_happyblock_filter") =>
          LET a == call.args
          IN  (\/ StaleDistrict(data, a.province, a.district)
               \/ StaleSubdistrict(data, a.province, a.district, a.subdistrict))
              => result = <<>>

\* C6 happens: the main filter query with a province selected and a district
\* that the dataset has under another province only, every range at its
\* default.
C6_Witness ==
    /\ Called("update_map")
    /\ call.args.province # None
    /\ StaleDistrict(data, call.args.province, call.args.district)
    /\ \E j \in DOMAIN data.rows : data.rows[j]["District"] = call.args.district
    /\ call.args.subdistrict = None /\ call.args.happyblock = None
    /\ call.args.net_add = layout.netAddValue
    /\ call.args.potential = layout.potentialValue
    /\ result = <<>>

ErrorDiagnostics ==
    {"ParserError while loading the dataset:",
     "Unexpected error while loading the dataset:",
     "Error during preprocessing:"}

DerivedCols == {"H", "I", "1-C", "M", "S", "Potential Score"}

Failed == \E i \in DOMAIN stdout : stdout[i] \in ErrorDiagnostics

\* C7: once the load or the preprocessing has failed, the diagnostic is the
\* last thing printed and the script has exited with no layout, no server
\* and no callback; and a layout, a server or a callback exists only over a
\* dataset that was loaded and carries every derived column.
C7_FatalStartup ==
    /\ Failed =>
          /\ pc = "exited"
          /\ stdout[Len(stdout)] \in ErrorDiagnostics
          /\ ~layout.built
          /\ call = NoCall
    /\ pc = "exited" => Failed
    /\ (layout.built \/ pc \in {"main", "serving"} \/ call # NoCall) =>
          /\ stdout = <<"Dataset loaded successfully.">>
          /\ file = Closed
          /\ DerivedCols \subseteq data.cols
          /\ \A i \in DOMAIN data.rows : DerivedCols \subseteq DOMAIN data.rows[i]

\* C7 happens: the preprocessing failed after it had derived some columns.
C7_Witness ==
    /\ pc = "exited"
    /\ stdout[Len(stdout)] = "Error during preprocessing:"
    /\ "M" \in data.cols
    /\ data.rows # <<>>

\* C8: no callback changes the base dataset: not its rows, their order or
\* any cell, the derived columns included.
C8_CallbacksKeepData == [][pc = "serving" => data' = data]_vars

\* C8 happens: a main filter query has returned fewer rows than the dataset
\* has.
C8_Witness ==
    /\ Called("update_map")
    /\ Len(result) < Len(data.rows)
    /\ "Potential Score" \in data.cols

\* x is a negative float
Negative(x) == ~IsNaN(x) /\ ~IsZero(x) /\ x.s = -1

\* C9: for non-negative Churn and Port Use the factor (1-C) is never
\* negative, and it is exactly 0 in every row with Churn > Port Use.
C9_ChurnClipped ==
    "1-C" \in data.cols =>
        \A i \in DOMAIN data.rows :
            LET r == data.rows[i]
            IN  (r["Churn"] >= 0 /\ r["Port Use"] >= 0) =>
                    /\ ~Negative(r["1-C"])
                    /\ r["Churn"] > r["Port Use"] => r["1-C"] = Zero(1)

\* C9 happens: a row with Churn > Port Use > 0 and a row with Churn > 0 =
\* Port Use have their factor.
C9_Witness ==
    /\ "1-C" \in data.cols
    /\ \E i, j \in DOMAIN data.rows :
          /\ data.rows[i]["Port Use"] > 0
          /\ data.rows[i]["Churn"] > data.rows[i]["Port Use"]
          /\ data.rows[j]["Port Use"] = 0
          /\ data.rows[j]["Churn"] > 0

IntColMax(df, c) == IntMax(Col(df, c))

\* what follows, for every row, from a zero maximum of a normalized column
\* or of the raw score: the factor and the Potential Score are NaN or
\* infinite
ZeroMaxNotFinite(df) ==
    \A i \in DOMAIN df.rows :
        /\ IntColMax(df, "Household") = 0 =>
              ~IsFinite(df.rows[i]["H"]) /\ ~IsFinite(df.rows[i]["Potential Score"])
        /\ IntColMax(df, "Install") = 0 =>
              ~IsFinite(df.rows[i]["I"]) /\ ~IsFinite(df.rows[i]["Potential Score"])
        /\ IntColMax(df, "Market Share True (%)") = 0 =>
              ~IsFinite(df.rows[i]["M"]) /\ ~IsFinite(df.rows[i]["Potential Score"])
        /\ IsZero(SeriesMax(RawScore(df))) =>
              ~IsFinite(df.rows[i]["Potential Score"])

\* C10 as claimed: after the scoring pass, a zero maximum of Household,
\* Install or Market Share True makes the factor and the Potential Score of
\* every row NaN or infinite, a zero maximum raw score makes every Potential
\* Score NaN or infinite, and a zero Port Use makes the (1-C) and the
\* Potential Score of its row NaN or infinite.
C10_ZeroDenominatorNeverFinite ==
    (ScoringDone /\ data.rows # <<>>) =>
        /\ ZeroMaxNotFinite(data)
        /\ \A i \in DOMAIN data.rows :
              data.rows[i]["Port Use"] = 0 =>
                  /\ ~IsFinite(data.rows[i]["1-C"])
                  /\ ~IsFinite(data.rows[i]["Potential Score"])

\* C10 amended: as claimed for a zero maximum of Household, Install, Market
\* Share True or of the raw score, and for a zero Port Use in a row whose
\* Churn is not positive; in a row of zero Port Use and positive Churn the
\* ratio is +inf, the cap turns it into 1 and (1-C) is the finite value 0.
C10_ZeroDenominatorAmended ==
    (ScoringDone /\ data.rows # <<>>) =>
        /\ ZeroMaxNotFinite(data)
        /\ \A i \in DOMAIN data.rows :
              LET r == data.rows[i]
              IN  /\ (r["Port Use"] = 0 /\ r["Churn"] <= 0) =>
                        ~IsFinite(r["1-C"]) /\ ~IsFinite(r["Potential Score"])
                  /\ (r["Port Use"] = 0 /\ r["Churn"] > 0) => r["1-C"] = Zero(1)

\* C10 happens: a scored dataset with a row of zero Port Use and zero Churn
\* and a row of zero Port Use and positive Churn, a NaN Potential Score,
\* and a row of zero Port Use whose Potential Score is finite.
C10_Witness ==
    /\ ScoringDone
    /\ \E i, j \in DOMAIN data.rows :
          /\ data.rows[i]["Port Use"] = 0 /\ data.rows[i]["Churn"] > 0
          /\ data.rows[j]["Port Use"] = 0 /\ data.rows[j]["Churn"] = 0
    /\ \E i \in DOMAIN data.rows : IsNaN(data.rows[i]["Potential Score"])
    /\ \E i \in DOMAIN data.rows :
          /\ data.rows[i]["Port Use"] = 0
          /\ IsFinite(data.rows[i]["Potential Score"])

\* a scored dataset whose maximum raw score is zero
ZeroMaxRawReached == ScoringDone /\ IsZero(SeriesMax(RawScore(data)))

\* a scored dataset with a zero maximum of Household
ZeroMaxHouseholdReached ==
    ScoringDone /\ data.rows # <<>> /\ IntColMax(data, "Household") = 0

\* a scored dataset with a row of zero Port Use and negative Churn, whose
\* (1-C) is +inf
NegativeChurnReached ==
    /\ ScoringDone
    /\ \E i \in DOMAIN data.rows :
          /\ data.rows[i]["Port Use"] = 0 /\ data.rows[i]["Churn"] < 0
          /\ data.rows[i]["1-C"] = PosInf

\* two rows of a scored dataset whose raw scores differ in the last binary
\* digit only: the Potential Scores are 100 and the double next below 100
LastDigitReached ==
    /\ ScoringDone
    /\ \E i, j \in DOMAIN data.rows :
          /\ data.rows[i]["Potential Score"] = FromInt(100)
          /\ data.rows[j]["Potential Score"] =
                 [k |-> "fin", s |-> 1, m |-> <<16383, 16383, 16383, 1599>>, e |-> -46]

=============================================================================
